---- MODULE Spec2Model ----
(***************************************************************************)
(* The document structuring and chunking engine of app/parse.py.           *)
(*                                                                         *)
(* A character is a one-character string, a text (a Python str) is a       *)
(* sequence of characters.  The functions of parse.py are operators over   *)
(* texts, computed the way the Python code computes them; chunk_document   *)
(* is a state machine that walks the pages and the sections of a document. *)
(*                                                                         *)
(* The service around it (app/main.py, app/embed.py, app/retrieve.py and   *)
(* app/reason.py) is a second state machine: requests served one after the *)
(* other, with Pinecone, the LLM endpoint, the parser and the downloader   *)
(* as collaborators whose calls succeed or raise.                          *)
(***************************************************************************)
EXTENDS Integers, Sequences, FiniteSets, TLC

VARIABLES
    documents,      \* chunk_document: the pages (doc.text of each Document)
    file_path,      \* chunk_document: the file_path argument
    now,            \* int(time.time())
    pc,             \* position of chunk_document
    document_id,    \* chunk_document local
    document_name,  \* chunk_document local
    doc_idx,        \* enumerate(documents) index of the page at hand
    sections,       \* split_by_headers(text) of the page at hand
    section_idx,    \* enumerate(sections) index of the section at hand
    chunks,         \* chunk_document: the list being built and returned
    fn,             \* the function a direct call applies
    arg_text,       \* direct call: the text argument
    arg_max,        \* direct call: max_rows / max_chars
    returned,       \* direct call: has the function returned
    ret,            \* direct call: the value returned
    store,          \* the nodes held by the Pinecone index, in insertion order
    pinecone_index, \* embed._pinecone_index, the process-wide instance
    request,        \* the request at hand (endpoint, token, documents, questions)
    rpc,            \* position of the request handler
    status,         \* HTTP status of the response, 0 while there is none
    served,         \* number of requests received so far
    doc_path,       \* handler local
    batch,          \* handler local `chunks`, the result of chunk_document
    assigned_id,    \* the document_id chunk_document gave the batch
    filter_id,      \* the document_id retrieve_chunks passed to search_document
    relevant_chunks,\* handler local, the result of retrieve_chunks
    answer_data,    \* handler local, the result of generate_answer
    llm_attempts,   \* POST requests made by the generate_answer call at hand
    llm_outcome,    \* what the last POST to the LLM did
    answers,        \* handler local list of answers
    effects         \* the collaborators called while serving the request

vars == <<documents, file_path, now, pc, document_id, document_name, doc_idx,
          sections, section_idx, chunks, fn, arg_text, arg_max, returned, ret,
          store, pinecone_index, request, rpc, status, served, doc_path, batch,
          assigned_id, filter_id, relevant_chunks, answer_data, llm_attempts,
          llm_outcome, answers, effects>>

docVars == <<documents, file_path, now, pc, document_id, document_name,
             doc_idx, sections, section_idx, chunks>>

callVars == <<fn, arg_text, arg_max, returned, ret>>

serviceVars == <<store, pinecone_index, request, rpc, status, served, doc_path,
                 batch, assigned_id, filter_id, relevant_chunks, answer_data,
                 llm_attempts, llm_outcome, answers, effects>>

----------------------------------------------------------------------------
(* Characters and character classes (Python str.strip, re \s \d \w).       *)

NL == "\n"
TAB == "\t"

Whitespace == {" ", "\t", "\n", "\r"}

UpperChars == <<"A","B","C","D","E","F","G","H","I","J","K","L","M",
                "N","O","P","Q","R","S","T","U","V","W","X","Y","Z">>

LowerChars == <<"a","b","c","d","e","f","g","h","i","j","k","l","m",
                "n","o","p","q","r","s","t","u","v","w","x","y","z">>

DigitChars == <<"0","1","2","3","4","5","6","7","8","9">>

Range(f) == {f[i] : i \in DOMAIN f}

Upper == Range(UpperChars)
Lower == Range(LowerChars)
Digit == Range(DigitChars)
WordChar == Upper \cup Lower \cup Digit \cup {"_"}

SetMin(S) == CHOOSE x \in S : \A y \in S : x <= y
SetMax(S) == CHOOSE x \in S : \A y \in S : x >= y

\* The first index >= from of s whose character is in cs, 0 when there is none.
FirstIn(s, from, cs) ==
    IF \E i \in from..Len(s) : s[i] \in cs
    THEN CHOOSE i \in from..Len(s) :
            s[i] \in cs /\ \A j \in from..(i - 1) : s[j] \notin cs
    ELSE 0

\* The first index >= from of s whose character is not in cs, 0 when none.
FirstNotIn(s, from, cs) ==
    IF \E i \in from..Len(s) : s[i] \notin cs
    THEN CHOOSE i \in from..Len(s) :
            s[i] \notin cs /\ \A j \in from..(i - 1) : s[j] \in cs
    ELSE 0

\* The last index of s whose character is not in cs, 0 when there is none.
LastNotIn(s, cs) ==
    IF \E i \in 1..Len(s) : s[i] \notin cs
    THEN CHOOSE i \in 1..Len(s) :
            s[i] \notin cs /\ \A j \in (i + 1)..Len(s) : s[j] \in cs
    ELSE 0

\* str.strip(chars): drop leading and trailing characters of the set cs.
StripChars(s, cs) ==
    LET first == FirstNotIn(s, 1, cs)
    IN  IF first = 0 THEN <<>> ELSE SubSeq(s, first, LastNotIn(s, cs))

\* str.strip()
Strip(s) == StripChars(s, Whitespace)

\* bool(s.strip()): the text has a non-whitespace character.
HasText(s) == \E i \in 1..Len(s) : s[i] \notin Whitespace

\* str.find(sep): the first index where sep occurs in s, 0 when it does not.
OccursAt(s, sep, i) == \A k \in 1..Len(sep) : s[i + k - 1] = sep[k]

Find(s, sep) ==
    LET last == Len(s) - Len(sep) + 1
    IN  IF \E i \in 1..last : OccursAt(s, sep, i)
        THEN CHOOSE i \in 1..last :
                OccursAt(s, sep, i) /\ \A j \in 1..(i - 1) : ~OccursAt(s, sep, j)
        ELSE 0

\* str.split(sep): the pieces between the occurrences of sep, left to right.
RECURSIVE SplitOn(_, _)
SplitOn(s, sep) ==
    LET i == Find(s, sep)
    IN  IF i = 0 THEN <<s>>
        ELSE <<SubSeq(s, 1, i - 1)>> \o SplitOn(SubSeq(s, i + Len(sep), Len(s)), sep)

\* The concatenation of a sequence of sequences
RECURSIVE Flatten(_)
Flatten(seqs) == IF seqs = <<>> THEN <<>> ELSE Head(seqs) \o Flatten(Tail(seqs))

\* sep.join(parts)
RECURSIVE Join(_, _)
Join(parts, sep) ==
    IF parts = <<>> THEN <<>>
    ELSE IF Len(parts) = 1 THEN parts[1]
    ELSE parts[1] \o sep \o Join(Tail(parts), sep)

\* str.count(c) for a single character c
Count(s, c) == Cardinality({i \in 1..Len(s) : s[i] = c})

----------------------------------------------------------------------------
(* split_by_headers                                                        *)

AllIn(s, from, to, cs) == \A i \in from..to : s[i] \in cs

\* '.' of a regular expression matches every character but the newline.
AllDot(s, from, to) == \A i \in from..to : s[i] # NL

\* r'^(#{1,6}\s+.+)$'
MatchMarkdown(line) ==
    \E k \in 1..6 :
        /\ Len(line) >= k + 2
        /\ AllIn(line, 1, k, {"#"})
        /\ line[k + 1] \in Whitespace
        /\ AllDot(line, k + 2, Len(line))

\* r'^(\d+\.[\d\.]*\s+.+)$'
MatchNumbered(line) ==
    \E p \in 3..(Len(line) - 1) :
        /\ line[1] \in Digit
        /\ AllIn(line, 1, p - 1, Digit \cup {"."})
        /\ \E d \in 2..(p - 1) : line[d] = "." /\ AllIn(line, 1, d - 1, Digit)
        /\ line[p] \in Whitespace
        /\ AllDot(line, p + 1, Len(line))

\* r'^([A-Z][A-Z\s]{5,}:?)$'
MatchAllCaps(line) ==
    /\ Len(line) >= 6
    /\ line[1] \in Upper
    /\ \/ AllIn(line, 2, Len(line), Upper \cup Whitespace)
       \/ /\ Len(line) >= 7
          /\ line[Len(line)] = ":"
          /\ AllIn(line, 2, Len(line) - 1, Upper \cup Whitespace)

\* r'^([A-Z][a-z][\w\s]{3,}:)$'
MatchTitleColon(line) ==
    /\ Len(line) >= 6
    /\ line[1] \in Upper
    /\ line[2] \in Lower
    /\ line[Len(line)] = ":"
    /\ AllIn(line, 3, Len(line) - 1, WordChar \cup Whitespace)

\* r'^(\*\*[^*]+\*\*)$' and r'^(__[^_]+__)$'
MatchWrapped(line, c) ==
    /\ Len(line) >= 5
    /\ line[1] = c /\ line[2] = c
    /\ line[Len(line) - 1] = c /\ line[Len(line)] = c
    /\ \A i \in 3..(Len(line) - 2) : line[i] # c

\* header_patterns, in the order the loop tries them
HeaderPatternCount == 6

MatchPattern(n, line) ==
    CASE n = 1 -> MatchMarkdown(line)
      [] n = 2 -> MatchNumbered(line)
      [] n = 3 -> MatchAllCaps(line)
      [] n = 4 -> MatchTitleColon(line)
      [] n = 5 -> MatchWrapped(line, "*")
      [] n = 6 -> MatchWrapped(line, "_")

\* The index of the first pattern that matches the line, 0 when none does.
FirstPattern(line) ==
    LET hits == {n \in 1..HeaderPatternCount : MatchPattern(n, line)}
    IN  IF hits = {} THEN 0 ELSE SetMin(hits)

IsHeaderLine(line) == FirstPattern(line) # 0

\* re.match(pattern, line).group(1): every pattern is ^( ... )$, so the group
\* is the whole line.
HeaderText(line) == line

MarkupChars == {"#", " ", "*", "_", ":"}

\* Mutant of HeaderTitle: the markup around the title is kept.
HeaderTitleRaw(line) == HeaderText(line)

\* header_text.strip('# *_:')
HeaderTitle(line) == StripChars(HeaderText(line), MarkupChars)

IntroductionTitle == <<"I","n","t","r","o","d","u","c","t","i","o","n">>

DocumentContentTitle ==
    <<"D","o","c","u","m","e","n","t"," ","C","o","n","t","e","n","t">>

\* Mutant of ScanLines: on a header the accumulator is sealed whatever its
\* content.
RECURSIVE ScanLinesSealingAlways(_, _, _)
ScanLinesSealingAlways(lines, i, acc) ==
    IF i > Len(lines) THEN acc
    ELSE
        LET line == Strip(lines[i])
            cur  == acc.current
        IN  IF line = <<>>
            THEN ScanLinesSealingAlways(lines, i + 1,
                    [acc EXCEPT !.current.content = @ \o <<NL>>])
            ELSE IF IsHeaderLine(line)
            THEN ScanLinesSealingAlways(lines, i + 1,
                    [sections |-> Append(acc.sections, cur),
                     current  |-> [title |-> HeaderTitle(line), content |-> <<>>]])
            ELSE ScanLinesSealingAlways(lines, i + 1,
                    [acc EXCEPT !.current.content = @ \o line \o <<NL>>])

\* The for loop over lines: `acc` is [sections, current].
RECURSIVE ScanLines(_, _, _)
ScanLines(lines, i, acc) ==
    IF i > Len(lines) THEN acc
    ELSE
        LET line == Strip(lines[i])
            cur  == acc.current
        IN  IF line = <<>>
            THEN ScanLines(lines, i + 1,
                    [acc EXCEPT !.current.content = @ \o <<NL>>])
            ELSE IF IsHeaderLine(line)
            THEN ScanLines(lines, i + 1,
                    [sections |-> IF HasText(cur.content)
                                  THEN Append(acc.sections, cur)
                                  ELSE acc.sections,
                     current  |-> [title |-> HeaderTitle(line), content |-> <<>>]])
            ELSE ScanLines(lines, i + 1,
                    [acc EXCEPT !.current.content = @ \o line \o <<NL>>])

\* Mutant of split_by_headers: the fallback section is not created.
SplitWithoutFallback(text) ==
    LET lines == SplitOn(text, <<NL>>)
        acc   == ScanLines(lines, 1,
                    [sections |-> <<>>,
                     current  |-> [title |-> IntroductionTitle, content |-> <<>>]])
    IN  IF HasText(acc.current.content)
        THEN Append(acc.sections, acc.current)
        ELSE acc.sections

\* Mutant of split_by_headers: the fallback section holds the stripped text.
SplitWithStrippedFallback(text) ==
    IF SplitWithoutFallback(text) = <<>>
    THEN <<[title |-> DocumentContentTitle, content |-> Strip(text)]>>
    ELSE SplitWithoutFallback(text)

\* Mutant of split_by_headers: the last section is not sealed after the scan.
SplitWithoutLastSection(text) ==
    LET lines == SplitOn(text, <<NL>>)
        acc   == ScanLines(lines, 1,
                    [sections |-> <<>>,
                     current  |-> [title |-> IntroductionTitle, content |-> <<>>]])
    IN  IF acc.sections = <<>>
        THEN <<[title |-> DocumentContentTitle, content |-> text]>>
        ELSE acc.sections

split_by_headers(text) ==
    LET lines  == SplitOn(text, <<NL>>)
        acc    == ScanLines(lines, 1,
                     [sections |-> <<>>,
                      current  |-> [title |-> IntroductionTitle, content |-> <<>>]])
        sealed == IF HasText(acc.current.content)
                  THEN Append(acc.sections, acc.current)
                  ELSE acc.sections
    IN  IF sealed = <<>>
        THEN <<[title |-> DocumentContentTitle, content |-> text]>>
        ELSE sealed

----------------------------------------------------------------------------
(* is_tabular_section                                                      *)

ToLower(c) ==
    IF c \in Upper
    THEN LowerChars[CHOOSE i \in DOMAIN UpperChars : UpperChars[i] = c]
    ELSE c

\* str.lower()
LowerText(s) == [i \in 1..Len(s) |-> ToLower(s[i])]

\* sub in s
Contains(s, sub) == Find(s, sub) # 0

\* table_keywords
TableKeywords ==
    { <<"t","a","b","l","e">>, <<"c","o","l","u","m","n">>, <<"r","o","w">>,
      <<"p","r","e","m","i","u","m">>, <<"c","o","v","e","r","a","g","e">>,
      <<"b","e","n","e","f","i","t">>, <<"a","m","o","u","n","t">> }

\* num / den > tnum / tden for den > 0, tden > 0 (the thresholds are the
\* decimal fractions 0.4, 0.3, 0.6 and 0.2, written in tenths).
RatioAbove(num, den, tnum, tden) == num * tden > tnum * den

\* The lines that contribute an entry to column_counts, and their entries.
ColumnLines(lines) ==
    {i \in 1..Len(lines) : Count(lines[i], "|") > 0 \/ Count(lines[i], TAB) > 0}

ColumnCount(line) ==
    IF Count(line, "|") > 0 THEN Count(line, "|") ELSE Count(line, TAB)

\* column_counts.count(most_common_count)
MostCommonFrequency(lines) ==
    LET L == ColumnLines(lines)
        freq(v) == Cardinality({i \in L : ColumnCount(lines[i]) = v})
    IN  SetMax({freq(ColumnCount(lines[i])) : i \in L})

\* Mutant of is_tabular_section: the consistency test asks for more than one
\* distinct recorded count instead of more than one recorded count.
IsTabularDistinctCounts(content) ==
    LET lines      == SplitOn(content, <<NL>>)
        n          == Len(lines)
        pipe_lines == Cardinality({i \in 1..n : Count(lines[i], "|") >= 2})
        tab_lines  == Cardinality({i \in 1..n : Count(lines[i], TAB) >= 1})
        ncols      == Cardinality(ColumnLines(lines))
        keyword_present ==
            \E k \in TableKeywords : Contains(LowerText(content), LowerText(k))
    IN  IF n < 2 THEN FALSE
        ELSE \/ RatioAbove(pipe_lines, n, 4, 10)
             \/ RatioAbove(tab_lines, n, 3, 10)
             \/ /\ ncols > 0
                /\ RatioAbove(MostCommonFrequency(lines), ncols, 6, 10)
                /\ Cardinality({ColumnCount(lines[i]) : i \in ColumnLines(lines)}) > 1
             \/ /\ keyword_present
                /\ \/ RatioAbove(pipe_lines, n, 2, 10)
                   \/ RatioAbove(tab_lines, n, 2, 10)

is_tabular_section(content) ==
    LET lines      == SplitOn(content, <<NL>>)
        n          == Len(lines)
        pipe_lines == Cardinality({i \in 1..n : Count(lines[i], "|") >= 2})
        tab_lines  == Cardinality({i \in 1..n : Count(lines[i], TAB) >= 1})
        ncols      == Cardinality(ColumnLines(lines))
        keyword_present ==
            \E k \in TableKeywords : Contains(LowerText(content), LowerText(k))
    IN  IF n < 2 THEN FALSE
        ELSE \/ RatioAbove(pipe_lines, n, 4, 10)
             \/ RatioAbove(tab_lines, n, 3, 10)
             \/ /\ ncols > 0
                /\ RatioAbove(MostCommonFrequency(lines), ncols, 6, 10)
                /\ ncols > 1
             \/ /\ keyword_present
                /\ \/ RatioAbove(pipe_lines, n, 2, 10)
                   \/ RatioAbove(tab_lines, n, 2, 10)

----------------------------------------------------------------------------
(* chunk_table_content                                                     *)

DefaultMaxRows == 10

Smaller(a, b) == IF a <= b THEN a ELSE b

\* non_empty_lines[i:j] of Python (0-based, j exclusive, clipped)
Slice(seq, i, j) == SubSeq(seq, i + 1, Smaller(j, Len(seq)))

\* Mutant of TableGroups: no group gets the header line prepended.
RECURSIVE TableGroupsPlain(_, _, _, _, _)
TableGroupsPlain(rows, header_line, start_idx, i, max_rows) ==
    IF i >= Len(rows) THEN <<>>
    ELSE <<Join(Slice(rows, i, i + max_rows), <<NL>>)>>
            \o TableGroupsPlain(rows, header_line, start_idx, i + max_rows, max_rows)

\* The loop `for i in range(start_idx, len(non_empty_lines), max_rows)`.
RECURSIVE TableGroups(_, _, _, _, _)
TableGroups(rows, header_line, start_idx, i, max_rows) ==
    IF i >= Len(rows) THEN <<>>
    ELSE
        LET chunk_lines   == Slice(rows, i, i + max_rows)
            chunk_content ==
                IF header_line # <<>> /\ i > start_idx
                THEN header_line \o <<NL>> \o Join(chunk_lines, <<NL>>)
                ELSE Join(chunk_lines, <<NL>>)
        IN  <<chunk_content>>
                \o TableGroups(rows, header_line, start_idx, i + max_rows, max_rows)

\* Mutant of chunk_table_content: the single-chunk test is < instead of <=.
ChunkTableStrictBound(content, max_rows) ==
    LET lines           == SplitOn(content, <<NL>>)
        non_empty_lines == SelectSeq(lines, HasText)
        head            == {i \in 1..Smaller(3, Len(non_empty_lines)) :
                              \/ Count(non_empty_lines[i], "|") > 0
                              \/ Count(non_empty_lines[i], TAB) > 0}
        header_line     == IF head = {} THEN <<>> ELSE non_empty_lines[SetMin(head)]
        start_idx       == IF head = {} THEN 0 ELSE SetMin(head)
    IN  IF Len(non_empty_lines) < max_rows THEN <<content>>
        ELSE TableGroups(non_empty_lines, header_line, start_idx, start_idx, max_rows)

chunk_table_content(content, max_rows) ==
    LET lines           == SplitOn(content, <<NL>>)
        non_empty_lines == SelectSeq(lines, HasText)
        head            == {i \in 1..Smaller(3, Len(non_empty_lines)) :
                              \/ Count(non_empty_lines[i], "|") > 0
                              \/ Count(non_empty_lines[i], TAB) > 0}
        header_line     == IF head = {} THEN <<>> ELSE non_empty_lines[SetMin(head)]
        start_idx       == IF head = {} THEN 0 ELSE SetMin(head)
    IN  IF Len(non_empty_lines) <= max_rows THEN <<content>>
        ELSE TableGroups(non_empty_lines, header_line, start_idx, start_idx, max_rows)

----------------------------------------------------------------------------
(* chunk_text_content                                                      *)

DefaultMaxChars == 1000

Terminators == {".", "!", "?"}

\* re.split(r'[.!?]+', paragraph)
RECURSIVE SplitSentences(_)
SplitSentences(s) ==
    LET i == FirstIn(s, 1, Terminators)
    IN  IF i = 0 THEN <<s>>
        ELSE
            LET j == FirstNotIn(s, i, Terminators)
            IN  <<SubSeq(s, 1, i - 1)>>
                    \o SplitSentences(IF j = 0 THEN <<>> ELSE SubSeq(s, j, Len(s)))

\* Mutant of Pack: a piece that overflows is cut to max_chars characters.
PackTruncating(acc, piece, glue, max_chars) ==
    IF Len(acc.current_chunk) + Len(piece) > max_chars
    THEN [chunks        |-> IF acc.current_chunk # <<>>
                            THEN Append(acc.chunks, Strip(acc.current_chunk))
                            ELSE acc.chunks,
          current_chunk |-> SubSeq(piece, 1, Smaller(max_chars, Len(piece)))]
    ELSE [chunks        |-> acc.chunks,
          current_chunk |-> IF acc.current_chunk # <<>>
                            THEN acc.current_chunk \o glue \o piece
                            ELSE piece]

\* Packing one piece (a sentence or a paragraph) into the accumulator
\* `acc` = [chunks, current_chunk]; glue joins it to a non-empty current_chunk.
Pack(acc, piece, glue, max_chars) ==
    IF Len(acc.current_chunk) + Len(piece) > max_chars
    THEN [chunks        |-> IF acc.current_chunk # <<>>
                            THEN Append(acc.chunks, Strip(acc.current_chunk))
                            ELSE acc.chunks,
          current_chunk |-> piece]
    ELSE [chunks        |-> acc.chunks,
          current_chunk |-> IF acc.current_chunk # <<>>
                            THEN acc.current_chunk \o glue \o piece
                            ELSE piece]

\* The loop `for sentence in sentences`
RECURSIVE PackSentences(_, _, _, _)
PackSentences(sentences, k, acc, max_chars) ==
    IF k > Len(sentences) THEN acc
    ELSE
        LET sentence == Strip(sentences[k])
        IN  IF sentence = <<>>
            THEN PackSentences(sentences, k + 1, acc, max_chars)
            ELSE PackSentences(sentences, k + 1,
                    Pack(acc, sentence, <<" ">>, max_chars), max_chars)

\* The loop `for paragraph in paragraphs`
RECURSIVE PackParagraphs(_, _, _, _)
PackParagraphs(paragraphs, k, acc, max_chars) ==
    IF k > Len(paragraphs) THEN acc
    ELSE
        LET paragraph == paragraphs[k]
        IN  IF Len(paragraph) > max_chars
            THEN PackParagraphs(paragraphs, k + 1,
                    PackSentences(SplitSentences(paragraph), 1, acc, max_chars),
                    max_chars)
            ELSE PackParagraphs(paragraphs, k + 1,
                    Pack(acc, paragraph, <<NL, NL>>, max_chars), max_chars)

chunk_text_content(content, max_chars) ==
    IF Len(content) <= max_chars THEN <<content>>
    ELSE
        LET paragraphs == SplitOn(content, <<NL, NL>>)
            acc == PackParagraphs(paragraphs, 1,
                      [chunks |-> <<>>, current_chunk |-> <<>>], max_chars)
        IN  IF acc.current_chunk # <<>>
            THEN Append(acc.chunks, Strip(acc.current_chunk))
            ELSE acc.chunks

----------------------------------------------------------------------------
(* generate_document_id and the identifiers chunk_document formats         *)

\* The file_path argument left at its default, None.
NoPath == <<"None">>

\* bool(file_path): None and '' are false.
Truthy(path) == path # NoPath /\ path # <<>>

\* os.path.basename(file_path)
basename(path) ==
    LET slashes == {i \in 1..Len(path) : path[i] = "/"}
    IN  IF slashes = {} THEN path
        ELSE SubSeq(path, SetMax(slashes) + 1, Len(path))

\* str(n) for n >= 0
RECURSIVE Str(_)
Str(n) ==
    IF n < 10 THEN <<DigitChars[n + 1]>>
    ELSE Str(n \div 10) \o <<DigitChars[(n % 10) + 1]>>

HexChars == DigitChars \o <<"a","b","c","d","e","f">>

CodeTable == LowerChars \o UpperChars \o DigitChars \o <<"_", ".", "/", "-", " ">>

CharCode(c) ==
    IF c \in Range(CodeTable)
    THEN CHOOSE i \in DOMAIN CodeTable : CodeTable[i] = c
    ELSE 0

\* n as `width` hexadecimal digits
RECURSIVE HexDigits(_, _)
HexDigits(n, width) ==
    IF width = 0 THEN <<>>
    ELSE HexDigits(n \div 16, width - 1) \o <<HexChars[(n % 16) + 1]>>

RECURSIVE Digest(_, _, _)
Digest(s, mult, h) ==
    IF s = <<>> THEN h
    ELSE Digest(Tail(s), mult, (h * mult + CharCode(Head(s))) % 16777216)

\* hashlib.md5(content.encode()).hexdigest()[:12]: a fixed function of the
\* content to 12 hexadecimal digits (MD5 itself is stood in for by two
\* 24-bit polynomial digests).
HexDigest12(content) ==
    HexDigits(Digest(content, 31, 7), 6) \o HexDigits(Digest(content, 37, 11), 6)

generate_document_id(path, t) ==
    HexDigest12(basename(path) \o <<"_">> \o Str(t))

\* f"doc_{int(time.time())}"
FallbackDocumentId(t) == <<"d","o","c","_">> \o Str(t)

UnknownDocument ==
    <<"u","n","k","n","o","w","n","_","d","o","c","u","m","e","n","t">>

\* os.path.basename(None) and generate_document_id(None) raise TypeError.
RaisesOnPath(path) == path = NoPath

\* Mutant of DocumentIdentity: the identity is taken from the path without
\* the `if file_path` guards.
DocumentIdentityUnguarded(path, t) ==
    IF RaisesOnPath(path)
    THEN [raised |-> TRUE, document_id |-> <<>>, document_name |-> <<>>]
    ELSE [raised        |-> FALSE,
          document_id   |-> generate_document_id(path, t),
          document_name |-> basename(path)]

\* document_id and document_name as chunk_document assigns them: from the
\* path when there is one, otherwise the fallbacks.
DocumentIdentity(path, t) ==
    IF Truthy(path)
    THEN [raised        |-> RaisesOnPath(path),
          document_id   |-> generate_document_id(path, t),
          document_name |-> basename(path)]
    ELSE [raised        |-> FALSE,
          document_id   |-> FallbackDocumentId(t),
          document_name |-> UnknownDocument]

\* base_metadata['chunk_id']
BaseChunkId(doc_id, page_num, sec_idx) ==
    doc_id \o <<"_","p">> \o Str(page_num) \o <<"_","s">> \o Str(sec_idx)

\* Mutant of ChunkId: the section index is formatted where the chunk index
\* belongs.
ChunkIdBySection(doc_id, page_num, sec_idx, letter, chunk_idx) ==
    BaseChunkId(doc_id, page_num, sec_idx) \o <<"_", letter>> \o Str(sec_idx)

\* Mutant of ChunkId: the chunk index is counted from 1.
ChunkIdOneBased(doc_id, page_num, sec_idx, letter, chunk_idx) ==
    BaseChunkId(doc_id, page_num, sec_idx) \o <<"_", letter>> \o Str(chunk_idx + 1)

\* f"{document_id}_p{page_num}_s{section_idx}_t{chunk_idx}" and "..._c{chunk_idx}"
ChunkId(doc_id, page_num, sec_idx, letter, chunk_idx) ==
    BaseChunkId(doc_id, page_num, sec_idx) \o <<"_", letter>> \o Str(chunk_idx)

\* Mutant of BaseMetadata: the document id is generated anew for each section.
BaseMetadataFreshId(doc_id, doc_name, path, section, page_num, sec_idx, t) ==
    LET fresh == IF Truthy(path)
                 THEN generate_document_id(path, t)
                 ELSE FallbackDocumentId(t)
    IN  [document_id   |-> fresh,
         document_name |-> doc_name,
         file_path     |-> IF Truthy(path) THEN path ELSE <<>>,
         title         |-> section.title,
         page_number   |-> page_num,
         section_index |-> sec_idx,
         chunk_id      |-> BaseChunkId(fresh, page_num, sec_idx),
         created_at    |-> t]

\* base_metadata of one section
BaseMetadata(doc_id, doc_name, path, section, page_num, sec_idx, t) ==
    [document_id   |-> doc_id,
     document_name |-> doc_name,
     file_path     |-> IF Truthy(path) THEN path ELSE <<>>,
     title         |-> section.title,
     page_number   |-> page_num,
     section_index |-> sec_idx,
     chunk_id      |-> BaseChunkId(doc_id, page_num, sec_idx),
     created_at    |-> t]

\* {**base_metadata, 'chunk_id': ..., 'text': ..., 'type': ...}; the keys
\* table_info and text_info (analyze_*_structure of the chunk's own text)
\* are descriptive counts no other field depends on and are left out.
MakeChunk(base, letter, chunk_idx, chunk_text) ==
    [document_id   |-> base.document_id,
     document_name |-> base.document_name,
     file_path     |-> base.file_path,
     title         |-> base.title,
     page_number   |-> base.page_number,
     section_index |-> base.section_index,
     chunk_id      |-> ChunkId(base.document_id, base.page_number,
                               base.section_index, letter, chunk_idx),
     created_at    |-> base.created_at,
     text          |-> chunk_text,
     type          |-> IF letter = "t" THEN "table" ELSE "text"]

\* The chunks one section appends (the body of the loop over sections).
SectionChunks(base, section) ==
    IF is_tabular_section(section.content)
    THEN LET table_chunks == chunk_table_content(section.content, DefaultMaxRows)
         IN  [k \in 1..Len(table_chunks) |->
                 MakeChunk(base, "t", k - 1, table_chunks[k])]
    ELSE LET text_chunks == chunk_text_content(section.content, DefaultMaxChars)
         IN  [k \in 1..Len(text_chunks) |->
                 MakeChunk(base, "c", k - 1, text_chunks[k])]

----------------------------------------------------------------------------
(* chunk_document as one call                                              *)

\* The chunks chunk_document returns for the pages `docs`, the clock reading
\* t throughout the call.
ChunkDocument(docs, path, t) ==
    LET identity == DocumentIdentity(path, t)
        PageChunks(p) ==
            LET secs == split_by_headers(docs[p])
            IN  Flatten([s \in 1..Len(secs) |->
                    SectionChunks(
                        BaseMetadata(identity.document_id, identity.document_name,
                                     path, secs[s], p, s - 1, t),
                        secs[s])])
    IN  Flatten([p \in 1..Len(docs) |-> PageChunks(p)])

----------------------------------------------------------------------------
(* embed.py: the process-wide PineconeRAGIndex and the nodes it stores     *)

\* _pinecone_index = None.  An instance is a record saying which of its
\* attributes are set (not None); `exists` is false for None itself.
NoInstance ==
    [exists |-> FALSE, vector_store |-> FALSE, storage_context |-> FALSE,
     index |-> FALSE]

\* PineconeRAGIndex(): __init__ leaves the three attributes None.
NewInstance ==
    [exists |-> TRUE, vector_store |-> FALSE, storage_context |-> FALSE,
     index |-> FALSE]

\* What the Pinecone and LlamaIndex calls of the method create_or_load_index
\* can do: all succeed, or one raises before vector_store is assigned, before
\* storage_context is assigned, or before index is assigned.
InitOutcomes == {"ok", "connect_error", "storage_error", "index_error"}

\* PineconeRAGIndex.create_or_load_index(self): the attributes assigned
\* before the exception, if any, stay assigned; the exception is re-raised.
InitializeInstance(inst, outcome) ==
    [raised   |-> outcome # "ok",
     instance |-> [inst EXCEPT
                     !.vector_store    = outcome # "connect_error",
                     !.storage_context = outcome \in {"ok", "index_error"},
                     !.index           = outcome = "ok"]]

\* The module-level create_or_load_index(): the global is assigned before
\* the instance is initialized.
create_or_load_index(global, outcome) ==
    IF ~global.exists
    THEN LET r == InitializeInstance(NewInstance, outcome)
         IN  [raised |-> r.raised, global |-> r.instance, returned |-> r.instance]
    ELSE [raised |-> FALSE, global |-> global, returned |-> global]

\* The TextNode add_chunks builds from a chunk; `ingestion` tells the calls
\* of add_chunks apart (every TextNode has a node id of its own).
Node(chunk, ingestion) ==
    [text        |-> chunk.text,
     document_id |-> chunk.document_id,
     title       |-> chunk.title,
     page_number |-> chunk.page_number,
     chunk_id    |-> chunk.chunk_id,
     type        |-> chunk.type,
     ingestion   |-> ingestion]

\* What a call of the vector store or of the index can do
CallOutcomes == {"ok", "error"}

\* remove_document: vector_store.delete removes the nodes of the document;
\* an exception (vector_store is None, or delete raises) is logged only.
remove_document(inst, nodes, doc_id, outcome) ==
    IF inst.vector_store /\ outcome = "ok"
    THEN SelectSeq(nodes, LAMBDA n : n.document_id # doc_id)
    ELSE nodes

\* add_chunks(self, chunks): `nodes` is the content of the Pinecone index.
add_chunks(inst, nodes, chunk_list, ingestion, delete_outcome, insert_outcome) ==
    IF chunk_list = <<>>
    THEN [raised |-> FALSE, store |-> nodes]
    ELSE LET cleared == remove_document(inst, nodes, chunk_list[1].document_id,
                                        delete_outcome)
             fresh   == [i \in 1..Len(chunk_list) |-> Node(chunk_list[i], ingestion)]
         IN  IF inst.index /\ insert_outcome = "ok"
             THEN [raised |-> FALSE, store |-> cleared \o fresh]
             ELSE [raised |-> TRUE,  store |-> cleared]

\* top_k of search and of retrieve_chunks
DefaultTopK == 5

Reverse(s) == [i \in 1..Len(s) |-> s[Len(s) + 1 - i]]

\* What retriever.retrieve can do: raise, or return the nodes that pass the
\* filter in an order of its own (two orders are taken: insertion order and
\* its reverse).  The filter is MetadataFilter(key="document_id", value=...);
\* for the value '' both readings are taken: an exact match on '' and, as
\* retrieve_chunks expects, no filter at all.
SearchOutcomes ==
    {"error", "ranked", "reversed", "ranked_unfiltered", "reversed_unfiltered"}

\* search(self, query, document_id, top_k): the chunk_data of the results.
search(inst, nodes, doc_id, top_k, outcome) ==
    IF ~inst.index \/ outcome = "error"
    THEN <<>>
    ELSE LET open    == doc_id = <<>> /\ outcome \in {"ranked_unfiltered",
                                                      "reversed_unfiltered"}
             passing == SelectSeq(nodes, LAMBDA n : open \/ n.document_id = doc_id)
             ordered == IF outcome \in {"ranked", "ranked_unfiltered"}
                        THEN passing ELSE Reverse(passing)
             found   == SubSeq(ordered, 1, Smaller(top_k, Len(ordered)))
         IN  [i \in 1..Len(found) |->
                [text        |-> found[i].text,
                 document_id |-> found[i].document_id,
                 title       |-> found[i].title,
                 page_number |-> found[i].page_number,
                 chunk_id    |-> found[i].chunk_id,
                 type        |-> found[i].type]]

----------------------------------------------------------------------------
(* retrieve.py                                                             *)

\* retrieve_chunks(index, question, document_path): the document_id it makes
\* up and passes to search_document, and the chunks it returns.
retrieve_chunks(inst, nodes, document_path, first_outcome, second_outcome) ==
    LET initial_results ==
            IF document_path # <<>>
            THEN search(inst, nodes, <<>>, 1, first_outcome)
            ELSE <<>>
        found_id == IF initial_results # <<>>
                    THEN initial_results[1].document_id
                    ELSE <<>>
    IN  [document_id |-> found_id,
         chunks      |-> search(inst, nodes, found_id, DefaultTopK, second_outcome)]

----------------------------------------------------------------------------
(* reason.py                                                               *)

\* chunk['text'][:200]
SnippetLength == 200

Snippet(text) == SubSeq(text, 1, Smaller(SnippetLength, Len(text)))

\* clause_refs, one ClauseReference for every chunk
ClauseRefs(chunk_list) ==
    [i \in 1..Len(chunk_list) |->
        [title        |-> chunk_list[i].title,
         page_number  |-> chunk_list[i].page_number,
         text_snippet |-> IF Len(chunk_list[i].text) > SnippetLength
                          THEN Snippet(chunk_list[i].text) \o <<".", ".", ".">>
                          ELSE chunk_list[i].text]]

\* The fixed texts of create_fallback_response; an answer is the sequence of
\* the parts the f-string puts together.
InsufficientAnswer ==
    <<"I couldn't find sufficient information in the document to answer this question.">>

BasedOnAnswer(combined_text) ==
    <<"Based on the available information: ", combined_text, "...">>

DerivedRationale ==
    "This answer is derived from the most relevant sections of the document."

NoContentRationale == "No relevant content was found for this query."

\* Mutant of create_fallback_response: the insufficient-information answer is
\* given whatever the chunks.
FallbackAlwaysInsufficient(chunk_list, clause_refs) ==
    [answer           |-> InsufficientAnswer,
     rationale        |-> NoContentRationale,
     confidence       |-> "Low",
     relevant_clauses |-> clause_refs]

\* create_fallback_response(question, chunks, clause_refs)
create_fallback_response(chunk_list, clause_refs) ==
    IF chunk_list # <<>>
    THEN LET first_two == SubSeq(chunk_list, 1, Smaller(2, Len(chunk_list)))
         IN  [answer           |-> BasedOnAnswer(
                                      Join([i \in 1..Len(first_two) |->
                                               Snippet(first_two[i].text)], <<" ">>)),
              rationale        |-> DerivedRationale,
              confidence       |-> "Low",
              relevant_clauses |-> clause_refs]
    ELSE [answer           |-> InsufficientAnswer,
          rationale        |-> NoContentRationale,
          confidence       |-> "Low",
          relevant_clauses |-> clause_refs]

\* What the POST to the LLM can do: status 200 with a completion, another
\* status, or an exception (connection error, timeout, a body without
\* choices).
LlmOutcomes == {"ok", "bad_status", "exception"}

\* generate_answer(question, chunks): one POST, then the parsed completion
\* or the fallback response.
generate_answer(chunk_list, outcome) ==
    [raised      |-> FALSE,
     attempts    |-> 1,
     failed      |-> outcome \in {"bad_status", "exception"},
     answer_data |-> IF outcome \in {"bad_status", "exception"}
                     THEN create_fallback_response(chunk_list, ClauseRefs(chunk_list))
                     ELSE [answer           |-> <<"completion">>,
                           rationale        |-> "Based on the provided document excerpts.",
                           confidence       |-> "Medium",
                           relevant_clauses |-> ClauseRefs(chunk_list)]]

NoAnswer ==
    [answer |-> <<>>, rationale |-> "", confidence |-> "", relevant_clauses |-> <<>>]

----------------------------------------------------------------------------
(* main.py: the request handlers run_query and hackrx_run                  *)

NoRequest ==
    [endpoint |-> "", token_ok |-> TRUE, documents |-> <<>>, questions |-> 0]

\* str.startswith(prefix)
StartsWith(s, prefix) ==
    Len(s) >= Len(prefix) /\ SubSeq(s, 1, Len(prefix)) = prefix

HttpPrefix == <<"h","t","t","p",":","/","/">>
HttpsPrefix == <<"h","t","t","p","s",":","/","/">>

\* `except Exception as e: raise HTTPException(status_code=500, ...)` around
\* the body of the handler: HTTPException is an Exception, so the status of
\* an HTTPException raised in the body is replaced as well.
HandlerStatus(raised_status) == 500

----------------------------------------------------------------------------
(* Inputs                                                                  *)

MaxPages == 2
MaxClock == 1
LongTableRows == 12
LongParagraph == 500
MaxSplitLen == 7
MaxTableLen == 6
MaxRowsArg == 2
MaxProseLen == 6
MaxCharsArg == 3
MaxClassifyLen == 6
MaxKeywordTail == 4
MaxRequests == 2
MaxQuestions == 1

Repeat(c, n) == [i \in 1..n |-> c]

TextsUpTo(alphabet, n) == UNION {[1..k -> alphabet] : k \in 0..n}

HeaderT == <<"#", " ", "T">>
HeaderS == <<"#", "#", " ", "S">>
ProseAb == <<"a", "b", ".">>
RowA    == <<"|", "a", "|">>

EmptyPage      == <<>>
BlankPage      == <<" ", NL>>
HeaderOnlyPage == HeaderT
ProsePage      == ProseAb
TwoSectionPage == Join(<<HeaderT, ProseAb, <<>>, HeaderS, ProseAb>>, <<NL>>)
SmallTablePage == Join(<<RowA, RowA>>, <<NL>>)
LongTablePage  == Join([i \in 1..LongTableRows |-> RowA], <<NL>>)
LongProsePage  == Repeat("a", LongParagraph) \o <<NL, NL>> \o Repeat("a", LongParagraph)
MixedPage      == Join(<<ProseAb, HeaderT, RowA, RowA>>, <<NL>>)

PageTexts ==
    { EmptyPage, BlankPage, HeaderOnlyPage, ProsePage, TwoSectionPage,
      SmallTablePage, LongTablePage, MixedPage }

\* Documents with a page of prose longer than the default max_chars.
LongDocuments ==
    { <<LongProsePage>>, <<TwoSectionPage, LongProsePage>>,
      <<LongProsePage, LongTablePage>> }

\* Scenario A: two markdown headers, each followed by a line of prose.
ScenarioAPage ==
    Join(<< <<"#"," ","T","i","t","l","e">>,
            <<"H","e","l","l","o"," ","w","o","r","l","d",".">>,
            <<>>,
            <<"#","#"," ","S","u","b">>,
            <<"M","o","r","e"," ","t","e","x","t"," ","h","e","r","e",".">> >>, <<NL>>)

\* A page whose header line is markup only.
MarkupHeaderPage == Join(<< <<"#", " ", "#">>, ProseAb >>, <<NL>>)

\* A page of sentence terminators only, longer than the default max_chars.
TerminatorPage == Repeat(".", DefaultMaxChars + 1)

ScenarioDocuments == { <<ScenarioAPage>>, <<MarkupHeaderPage>>, <<TerminatorPage>> }

Documents ==
    UNION {[1..k -> PageTexts] : k \in 0..MaxPages}
        \cup LongDocuments \cup ScenarioDocuments

FilePaths ==
    { NoPath, <<>>, <<"a", ".", "t", "x", "t">>, <<"d", "/", "a", ".", "t", "x", "t">> }

SplitAlphabet == {"a", " ", NL, "#"}

\* One text for each header pattern and its near misses.
HeaderSamples ==
    { Join(<<<<"1", ".", " ", "A">>, <<"b">>>>, <<NL>>),
      Join(<<<<"1", ".", "2", ".", " ", "A">>, <<"b">>>>, <<NL>>),
      Join(<<<<"1", " ", "A">>, <<"b">>>>, <<NL>>),
      Join(<<<<"A", "B", "C", "D", "E", "F">>, <<"b">>>>, <<NL>>),
      Join(<<<<"A", "B", "C", "D", "E", "F", ":">>, <<"b">>>>, <<NL>>),
      Join(<<<<"A", "B", "C", "D", "E">>, <<"b">>>>, <<NL>>),
      Join(<<<<"A", "b", " ", "c", "d", ":">>, <<"b">>>>, <<NL>>),
      Join(<<<<"A", "b", "c", "d", ":">>, <<"b">>>>, <<NL>>),
      Join(<<<<"*", "*", "a", "*", "*">>, <<"b">>>>, <<NL>>),
      Join(<<<<"_", "_", "a", "_", "_">>, <<"b">>>>, <<NL>>),
      Join(<<<<"*", "*", "*", "*">>, <<"b">>>>, <<NL>>),
      Join(<<<<"b">>, <<"*", "*", "a", "*", "*">>, <<"c">>, <<"1", ".", " ", "A">>, <<"d">>>>, <<NL>>),
      TwoSectionPage, MixedPage }

SplitTexts == TextsUpTo(SplitAlphabet, MaxSplitLen) \cup HeaderSamples

TableAlphabet == {"a", "|", NL, " ", TAB}

TableTexts == TextsUpTo(TableAlphabet, MaxTableLen)

\* Scenario B: a pipe-delimited table of one header line and 24 data rows.
HeaderRow == <<"|", "h", "|">>

DataRow(k) == <<"|">> \o Str(k) \o <<"|">>

ScenarioBTable == Join(<<HeaderRow>> \o [k \in 1..24 |-> DataRow(k)], <<NL>>)

\* The calls of chunk_table_content: (content, max_rows)
\* Longer contents: the header line is the second or third non-blank line.
TableSamples ==
    { Join(<<<<"a">>, <<"|", "b", "|">>, <<"c">>, <<"d">>, <<"e">>>>, <<NL>>),
      Join(<<<<"a">>, <<>>, <<"b">>, <<"c", TAB, "d">>, <<"e">>, <<"f">>, <<"g">>>>, <<NL>>) }

TableCalls ==
    ((TableTexts \cup TableSamples) \X (1..MaxRowsArg))
        \cup {<<ScenarioBTable, DefaultMaxRows>>}

ProseAlphabet == {"a", ".", NL, " "}

ProseTexts == TextsUpTo(ProseAlphabet, MaxProseLen)

\* Scenario D: a single paragraph of 1500 characters without a terminator.
ScenarioDParagraph == Repeat("a", 1500)

\* The calls of chunk_text_content: (content, max_chars)
ProseCalls ==
    (ProseTexts \X (1..MaxCharsArg)) \cup {<<ScenarioDParagraph, DefaultMaxChars>>}

ClassifyAlphabet == {"a", "|", TAB, NL}

\* Beginnings of a content with and without one of the table keywords
KeywordHeads == { <<"r","o","w">>, <<"R","o","w">>, <<"r","a","w">> }

\* The contents is_tabular_section is called on
ClassifyTexts ==
    TextsUpTo(ClassifyAlphabet, MaxClassifyLen)
        \cup {head \o tail : head \in KeywordHeads,
                             tail \in TextsUpTo(ClassifyAlphabet, MaxKeywordTail)}

Endpoints == {"/run", "/hackrx/run"}

\* The files os.path.exists finds
ExistingFiles == { <<"a",".","t","x","t">> }

\* The `documents` field of a request: empty, an existing file, a URL, and a
\* name that is neither.
RequestDocuments ==
    { <<>>, <<"a",".","t","x","t">>, <<"h","t","t","p",":","/","/","h","/","u">>, <<"x">> }

Requests ==
    [endpoint : Endpoints, token_ok : BOOLEAN, documents : RequestDocuments,
     questions : 0..MaxQuestions]

\* What parse_document can return
ParsedDocuments == { <<>>, <<TwoSectionPage>> }

\* The local path download_document returns, a fresh name for every request
DownloadedPath(n) == <<"u">> \o Str(n) \o <<".", "p", "d", "f">>

----------------------------------------------------------------------------
(* chunk_document as a state machine                                       *)

NoCall ==
    /\ fn = "none"
    /\ arg_text = <<>>
    /\ arg_max = 0
    /\ returned = FALSE
    /\ ret = <<>>

\* No request is served.
NoService ==
    /\ store = <<>>
    /\ pinecone_index = NoInstance
    /\ request = NoRequest
    /\ rpc = "off"
    /\ status = 0
    /\ served = 0
    /\ doc_path = <<>>
    /\ batch = <<>>
    /\ assigned_id = <<>>
    /\ filter_id = <<>>
    /\ relevant_chunks = <<>>
    /\ answer_data = NoAnswer
    /\ llm_attempts = 0
    /\ llm_outcome = "none"
    /\ answers = <<>>
    /\ effects = {}

NoRun ==
    /\ documents = <<>>
    /\ file_path = NoPath
    /\ now = 0
    /\ pc = "idle"
    /\ document_id = <<>>
    /\ document_name = <<>>
    /\ doc_idx = 0
    /\ sections = <<>>
    /\ section_idx = 0
    /\ chunks = <<>>

Init ==
    /\ documents \in Documents
    /\ file_path \in FilePaths
    /\ now = 0
    /\ pc = "start"
    /\ document_id = <<>>
    /\ document_name = <<>>
    /\ doc_idx = 0
    /\ sections = <<>>
    /\ section_idx = 0
    /\ chunks = <<>>
    /\ NoCall
    /\ NoService

\* The clock int(time.time()) reads moves on between any two steps.
Tick ==
    /\ pc \in {"start", "pages", "sections"}
    /\ now < MaxClock
    /\ now' = now + 1
    /\ UNCHANGED <<documents, file_path, pc, document_id, document_name,
                   doc_idx, sections, section_idx, chunks>>
    /\ UNCHANGED callVars
    /\ UNCHANGED serviceVars

\* Lines 54-59: the document identity and the empty result list.
Begin ==
    /\ pc = "start"
    /\ LET identity == DocumentIdentity(file_path, now)
       IN  /\ document_id' = identity.document_id
           /\ document_name' = identity.document_name
           /\ pc' = IF identity.raised THEN "raised" ELSE "pages"
    /\ chunks' = <<>>
    /\ doc_idx' = 0
    /\ UNCHANGED <<documents, file_path, now, sections, section_idx>>
    /\ UNCHANGED callVars
    /\ UNCHANGED serviceVars

\* Lines 61-68: the next page is split into sections.
NextPage ==
    /\ pc = "pages"
    /\ doc_idx < Len(documents)
    /\ sections' = split_by_headers(documents[doc_idx + 1])
    /\ section_idx' = 0
    /\ pc' = "sections"
    /\ UNCHANGED <<documents, file_path, now, document_id, document_name,
                   doc_idx, chunks>>
    /\ UNCHANGED callVars
    /\ UNCHANGED serviceVars

\* Mutant of AppendChunks: the new chunks are put in front of the list.
PrependChunks(list, new) == new \o list

\* chunks.append(...) for every chunk of the section, in order
AppendChunks(list, new) == list \o new

\* Lines 70-103: one section is classified, chunked and appended.
NextSection ==
    /\ pc = "sections"
    /\ section_idx < Len(sections)
    /\ LET section == sections[section_idx + 1]
           base    == BaseMetadata(document_id, document_name, file_path,
                                   section, doc_idx + 1, section_idx, now)
       IN  chunks' = AppendChunks(chunks, SectionChunks(base, section))
    /\ section_idx' = section_idx + 1
    /\ UNCHANGED <<documents, file_path, now, pc, document_id, document_name,
                   doc_idx, sections>>
    /\ UNCHANGED callVars
    /\ UNCHANGED serviceVars

\* The loop over the sections of the page is exhausted.
EndPage ==
    /\ pc = "sections"
    /\ section_idx = Len(sections)
    /\ doc_idx' = doc_idx + 1
    /\ pc' = "pages"
    /\ UNCHANGED <<documents, file_path, now, document_id, document_name,
                   sections, section_idx, chunks>>
    /\ UNCHANGED callVars
    /\ UNCHANGED serviceVars

\* Line 106: return chunks
Return ==
    /\ pc = "pages"
    /\ doc_idx = Len(documents)
    /\ pc' = "done"
    /\ UNCHANGED <<documents, file_path, now, document_id, document_name,
                   doc_idx, sections, section_idx, chunks>>
    /\ UNCHANGED callVars
    /\ UNCHANGED serviceVars

Next == Tick \/ Begin \/ NextPage \/ NextSection \/ EndPage \/ Return

Spec == Init /\ [][Next]_vars

----------------------------------------------------------------------------
(* Direct calls of split_by_headers and chunk_table_content                *)

InitSplit ==
    /\ NoRun
    /\ NoService
    /\ fn = "split_by_headers"
    /\ arg_text \in SplitTexts
    /\ arg_max = 0
    /\ returned = FALSE
    /\ ret = <<>>

CallSplit ==
    /\ fn = "split_by_headers"
    /\ ~returned
    /\ ret' = split_by_headers(arg_text)
    /\ returned' = TRUE
    /\ UNCHANGED <<fn, arg_text, arg_max>>
    /\ UNCHANGED docVars
    /\ UNCHANGED serviceVars

NextSplit == CallSplit

SplitSpec == InitSplit /\ [][NextSplit]_vars

InitTable ==
    /\ NoRun
    /\ NoService
    /\ fn = "chunk_table_content"
    /\ \E call \in TableCalls : arg_text = call[1] /\ arg_max = call[2]
    /\ returned = FALSE
    /\ ret = <<>>

CallTable ==
    /\ fn = "chunk_table_content"
    /\ ~returned
    /\ ret' = chunk_table_content(arg_text, arg_max)
    /\ returned' = TRUE
    /\ UNCHANGED <<fn, arg_text, arg_max>>
    /\ UNCHANGED docVars
    /\ UNCHANGED serviceVars

NextTable == CallTable

TableSpec == InitTable /\ [][NextTable]_vars

InitProse ==
    /\ NoRun
    /\ NoService
    /\ fn = "chunk_text_content"
    /\ \E call \in ProseCalls : arg_text = call[1] /\ arg_max = call[2]
    /\ returned = FALSE
    /\ ret = <<>>

CallProse ==
    /\ fn = "chunk_text_content"
    /\ ~returned
    /\ ret' = chunk_text_content(arg_text, arg_max)
    /\ returned' = TRUE
    /\ UNCHANGED <<fn, arg_text, arg_max>>
    /\ UNCHANGED docVars
    /\ UNCHANGED serviceVars

NextProse == CallProse

ProseSpec == InitProse /\ [][NextProse]_vars

InitClassify ==
    /\ NoRun
    /\ NoService
    /\ fn = "is_tabular_section"
    /\ arg_text \in ClassifyTexts
    /\ arg_max = 0
    /\ returned = FALSE
    /\ ret = <<>>

\* The boolean result is returned as the one-element sequence <<result>>.
CallClassify ==
    /\ fn = "is_tabular_section"
    /\ ~returned
    /\ ret' = <<is_tabular_section(arg_text)>>
    /\ returned' = TRUE
    /\ UNCHANGED <<fn, arg_text, arg_max>>
    /\ UNCHANGED docVars
    /\ UNCHANGED serviceVars

NextClassify == CallClassify

ClassifySpec == InitClassify /\ [][NextClassify]_vars

----------------------------------------------------------------------------
(* The service: requests served one after the other by run_query and       *)
(* hackrx_run, which differ in the token check only                        *)

parseVars == <<documents, file_path, pc, document_id, document_name, doc_idx,
               sections, section_idx, chunks>>

InitService ==
    /\ NoRun
    /\ NoCall
    /\ store = <<>>
    /\ pinecone_index = NoInstance
    /\ request = NoRequest
    /\ rpc = "idle"
    /\ status = 0
    /\ served = 0
    /\ doc_path = <<>>
    /\ batch = <<>>
    /\ assigned_id = <<>>
    /\ filter_id = <<>>
    /\ relevant_chunks = <<>>
    /\ answer_data = NoAnswer
    /\ llm_attempts = 0
    /\ llm_outcome = "none"
    /\ answers = <<>>
    /\ effects = {}

\* The clock moves on; a request reads it once, in chunk_document, so it is
\* enough to let it move just before that call.
ServiceTick ==
    /\ rpc = "parse"
    /\ now < MaxClock
    /\ now' = now + 1
    /\ UNCHANGED parseVars
    /\ UNCHANGED callVars
    /\ UNCHANGED serviceVars

\* A request arrives; the locals of the handler are fresh.
Receive ==
    /\ rpc \in {"idle", "done"}
    /\ served < MaxRequests
    /\ request' \in {r \in Requests : r.endpoint = "/run" => r.token_ok}
    /\ served' = served + 1
    /\ rpc' = "auth"
    /\ status' = 0
    /\ doc_path' = <<>>
    /\ batch' = <<>>
    /\ assigned_id' = <<>>
    /\ filter_id' = <<>>
    /\ relevant_chunks' = <<>>
    /\ answer_data' = NoAnswer
    /\ llm_attempts' = 0
    /\ llm_outcome' = "none"
    /\ answers' = <<>>
    /\ effects' = {}
    /\ UNCHANGED <<store, pinecone_index, now>>
    /\ UNCHANGED parseVars
    /\ UNCHANGED callVars

\* verify_token, the dependency of hackrx_run: 401 outside the handler body.
VerifyToken ==
    /\ rpc = "auth"
    /\ IF request.endpoint = "/hackrx/run" /\ ~request.token_ok
       THEN status' = 401 /\ rpc' = "done"
       ELSE status' = status /\ rpc' = "validate"
    /\ UNCHANGED <<store, pinecone_index, request, served, doc_path, batch,
                   assigned_id, filter_id, relevant_chunks, answer_data,
                   llm_attempts, llm_outcome, answers, effects, now>>
    /\ UNCHANGED parseVars
    /\ UNCHANGED callVars

\* Lines 69-87 and 127-143: the two required fields, then the document path.
\* `download` is what utils.download_document does for a URL.
Validate ==
    /\ rpc = "validate"
    /\ \E download \in CallOutcomes :
        LET document_path == request.documents
            is_url == \/ StartsWith(document_path, HttpPrefix)
                      \/ StartsWith(document_path, HttpsPrefix)
        IN  IF document_path = <<>> \/ request.questions = 0
            THEN /\ status' = HandlerStatus(400)
                 /\ rpc' = "done"
                 /\ UNCHANGED <<doc_path, effects>>
            ELSE IF document_path \in ExistingFiles
            THEN /\ doc_path' = document_path
                 /\ rpc' = "parse"
                 /\ UNCHANGED <<status, effects>>
            ELSE IF is_url
            THEN /\ effects' = effects \cup {"download"}
                 /\ IF download = "ok"
                    THEN /\ doc_path' = DownloadedPath(served)
                         /\ rpc' = "parse"
                         /\ UNCHANGED status
                    ELSE /\ status' = HandlerStatus(0)
                         /\ rpc' = "done"
                         /\ UNCHANGED doc_path
            ELSE /\ status' = HandlerStatus(400)
                 /\ rpc' = "done"
                 /\ UNCHANGED <<doc_path, effects>>
    /\ UNCHANGED <<store, pinecone_index, request, served, batch, assigned_id,
                   filter_id, relevant_chunks, answer_data, llm_attempts,
                   llm_outcome, answers, now>>
    /\ UNCHANGED parseVars
    /\ UNCHANGED callVars

\* Lines 91-92 and 146-147: parse_document, which may raise, and
\* chunk_document(parsed_doc, doc_path).
ParseAndChunk ==
    /\ rpc = "parse"
    /\ effects' = effects \cup {"parse"}
    /\ \/ /\ status' = HandlerStatus(0)
          /\ rpc' = "done"
          /\ UNCHANGED <<batch, assigned_id>>
       \/ \E parsed_doc \in ParsedDocuments :
            /\ batch' = ChunkDocument(parsed_doc, doc_path, now)
            /\ assigned_id' = DocumentIdentity(doc_path, now).document_id
            /\ rpc' = "index"
            /\ UNCHANGED status
    /\ UNCHANGED <<store, pinecone_index, request, served, doc_path, filter_id,
                   relevant_chunks, answer_data, llm_attempts, llm_outcome,
                   answers, now>>
    /\ UNCHANGED parseVars
    /\ UNCHANGED callVars

\* Lines 96 and 150: embed.create_or_load_index()
CreateOrLoadIndex ==
    /\ rpc = "index"
    /\ effects' = effects \cup {"index"}
    /\ \E outcome \in InitOutcomes :
        LET r == create_or_load_index(pinecone_index, outcome)
        IN  /\ pinecone_index' = r.global
            /\ IF r.raised
               THEN status' = HandlerStatus(0) /\ rpc' = "done"
               ELSE status' = status /\ rpc' = "add"
    /\ UNCHANGED <<store, request, served, doc_path, batch, assigned_id,
                   filter_id, relevant_chunks, answer_data, llm_attempts,
                   llm_outcome, answers, now>>
    /\ UNCHANGED parseVars
    /\ UNCHANGED callVars

\* Lines 97 and 151: embed.add_chunks_to_index(index, chunks, doc_path)
AddChunks ==
    /\ rpc = "add"
    /\ \E delete_outcome \in CallOutcomes, insert_outcome \in CallOutcomes :
        LET r == add_chunks(pinecone_index, store, batch, served,
                            delete_outcome, insert_outcome)
        IN  /\ store' = r.store
            /\ IF r.raised
               THEN status' = HandlerStatus(0) /\ rpc' = "done"
               ELSE status' = status /\ rpc' = "loop"
    /\ UNCHANGED <<pinecone_index, request, served, doc_path, batch,
                   assigned_id, filter_id, relevant_chunks, answer_data,
                   llm_attempts, llm_outcome, answers, effects, now>>
    /\ UNCHANGED parseVars
    /\ UNCHANGED callVars

\* Lines 105 and 160: retrieve.retrieve_chunks(index, question, doc_path)
RetrieveChunks ==
    /\ rpc = "loop"
    /\ Len(answers) < request.questions
    /\ \E first \in SearchOutcomes, second \in SearchOutcomes :
        LET r == retrieve_chunks(pinecone_index, store, doc_path, first, second)
        IN  /\ filter_id' = r.document_id
            /\ relevant_chunks' = r.chunks
    /\ rpc' = "answer"
    /\ UNCHANGED <<store, pinecone_index, request, status, served, doc_path,
                   batch, assigned_id, answer_data, llm_attempts, llm_outcome,
                   answers, effects, now>>
    /\ UNCHANGED parseVars
    /\ UNCHANGED callVars

\* Lines 108-111 and 163-165: reason.generate_answer and answers.append
GenerateAnswer ==
    /\ rpc = "answer"
    /\ \E outcome \in LlmOutcomes :
        LET r == generate_answer(relevant_chunks, outcome)
        IN  /\ answer_data' = r.answer_data
            /\ llm_attempts' = r.attempts
            /\ llm_outcome' = outcome
            /\ IF r.raised
               THEN /\ status' = HandlerStatus(0)
                    /\ rpc' = "done"
                    /\ UNCHANGED answers
               ELSE /\ answers' = Append(answers, r.answer_data.answer)
                    /\ rpc' = "loop"
                    /\ UNCHANGED status
    /\ effects' = effects \cup {"llm"}
    /\ UNCHANGED <<store, pinecone_index, request, served, doc_path,
                   batch, assigned_id, filter_id, relevant_chunks, now>>
    /\ UNCHANGED parseVars
    /\ UNCHANGED callVars

\* Lines 114 and 167: the response with the answers
Respond ==
    /\ rpc = "loop"
    /\ Len(answers) = request.questions
    /\ status' = 200
    /\ rpc' = "done"
    /\ UNCHANGED <<store, pinecone_index, request, served, doc_path, batch,
                   assigned_id, filter_id, relevant_chunks, answer_data,
                   llm_attempts, llm_outcome, answers, effects, now>>
    /\ UNCHANGED parseVars
    /\ UNCHANGED callVars

NextService ==
    \/ ServiceTick \/ Receive \/ VerifyToken \/ Validate \/ ParseAndChunk
    \/ CreateOrLoadIndex \/ AddChunks \/ RetrieveChunks \/ GenerateAnswer
    \/ Respond

ServiceSpec == InitService /\ [][NextService]_vars

----------------------------------------------------------------------------
(* Properties of chunk_document (specification Spec)                       *)

ChunkIndices == 1..Len(chunks)

\* The 0-based index of chunks[i] among the chunks of its page and section.
SubIndexAt(i) ==
    Cardinality({j \in 1..(i - 1) :
        /\ chunks[j].page_number = chunks[i].page_number
        /\ chunks[j].section_index = chunks[i].section_index})

\* int(digits)
RECURSIVE ParseInt(_)
ParseInt(digits) ==
    IF digits = <<>> THEN 0
    ELSE 10 * ParseInt(SubSeq(digits, 1, Len(digits) - 1))
            + (CHOOSE d \in 0..9 : DigitChars[d + 1] = digits[Len(digits)])

\* The sub-index a chunk_id ends with (the digits after its last letter).
SubIndexOfId(id) == ParseInt(SubSeq(id, LastNotIn(id, Digit) + 1, Len(id)))

TypeLetter(chunk) == IF chunk.type = "table" THEN "t" ELSE "c"

\* C1: every chunk chunk_document returns has a text that is non-empty after
\* trimming whitespace.
C1_ChunkTextNonEmpty ==
    \A i \in ChunkIndices : HasText(chunks[i].text)

\* C2: a document of zero pages, or whose pages are all empty or blank,
\* yields the empty chunk sequence.
C2_BlankDocumentYieldsNoChunks ==
    (pc = "done" /\ \A p \in 1..Len(documents) : ~HasText(documents[p]))
        => chunks = <<>>

\* C3: the chunk_id values of one chunk_document call are pairwise distinct.
C3_ChunkIdsDistinct ==
    \A i, j \in ChunkIndices : i # j => chunks[i].chunk_id # chunks[j].chunk_id

\* Two pages have contributed chunks, and some section has contributed two.
C3_Witness ==
    /\ pc = "done"
    /\ \E i, j \in ChunkIndices : chunks[i].page_number # chunks[j].page_number
    /\ \E i \in ChunkIndices : SubIndexAt(i) > 0

\* C4 as stated: chunk_id is document_id + "_p" + page_number + "_s" +
\* section_index + letter + sub_index, with letter "t" for a table chunk and
\* "c" for a text chunk (no separator between section_index and the letter).
C4_ChunkIdFormatAsStated ==
    \A i \in ChunkIndices :
        chunks[i].chunk_id =
            chunks[i].document_id \o <<"_", "p">> \o Str(chunks[i].page_number)
                \o <<"_", "s">> \o Str(chunks[i].section_index)
                \o <<TypeLetter(chunks[i])>> \o Str(SubIndexAt(i))

\* C4 amended: chunk_id is document_id + "_p" + page_number + "_s" +
\* section_index + "_" + letter + sub_index; page_number is the 1-based index
\* of a page, section_index and sub_index are 0-based, and the letter is "t"
\* exactly for type "table" and "c" exactly for type "text".
C4_ChunkIdFormat ==
    \A i \in ChunkIndices :
        /\ chunks[i].type \in {"table", "text"}
        /\ chunks[i].page_number \in 1..Len(documents)
        /\ chunks[i].section_index >= 0
        /\ chunks[i].chunk_id =
              chunks[i].document_id \o <<"_", "p">> \o Str(chunks[i].page_number)
                  \o <<"_", "s">> \o Str(chunks[i].section_index)
                  \o <<"_", TypeLetter(chunks[i])>> \o Str(SubIndexAt(i))

\* A finished run with a table chunk and a text chunk of sub-index above 0.
C4_Witness ==
    /\ pc = "done"
    /\ \E i \in ChunkIndices : chunks[i].type = "table" /\ SubIndexAt(i) > 0
    /\ \E i \in ChunkIndices : chunks[i].type = "text" /\ SubIndexAt(i) > 0

LexLess(a, b) ==
    \/ a[1] < b[1]
    \/ a[1] = b[1] /\ a[2] < b[2]
    \/ a[1] = b[1] /\ a[2] = b[2] /\ a[3] < b[3]

OrderKey(chunk) ==
    <<chunk.page_number, chunk.section_index, SubIndexOfId(chunk.chunk_id)>>

\* C5: the output is in page-then-section-then-subchunk order: for positions
\* i < j the triple (page_number, section_index, sub_index) of chunk i is
\* strictly smaller, lexicographically, than that of chunk j.
C5_OutputOrdered ==
    \A i, j \in ChunkIndices :
        i < j => LexLess(OrderKey(chunks[i]), OrderKey(chunks[j]))

\* A finished run whose output spans two pages, two sections of one page and
\* two chunks of one section.
C5_Witness ==
    /\ pc = "done"
    /\ \E i, j \in ChunkIndices : chunks[i].page_number < chunks[j].page_number
    /\ \E i, j \in ChunkIndices :
          /\ chunks[i].page_number = chunks[j].page_number
          /\ chunks[i].section_index < chunks[j].section_index
    /\ \E i \in ChunkIndices : SubIndexOfId(chunks[i].chunk_id) > 0

\* C6: all chunks of one run carry the same document_id, document_name and
\* file_path, the ones generated before the first page was processed.
C6_SingleIdentity ==
    \A i \in ChunkIndices :
        /\ chunks[i].document_id = document_id
        /\ chunks[i].document_name = document_name
        /\ chunks[i].file_path = (IF Truthy(file_path) THEN file_path ELSE <<>>)
        /\ chunks[i].document_id = chunks[1].document_id

\* A finished run over two pages during which the clock moved on between the
\* first and the last chunk.
C6_Witness ==
    /\ pc = "done"
    /\ Len(chunks) >= 2
    /\ chunks[1].page_number # chunks[Len(chunks)].page_number
    /\ chunks[1].created_at # chunks[Len(chunks)].created_at

\* C18: Scenario A gives two sections titled "Title" and "Sub", neither of
\* them tabular, and one text chunk for each.
C18_ScenarioA ==
    (pc = "done" /\ documents = <<ScenarioAPage>>)
        => /\ Len(sections) = 2
           /\ sections[1].title = <<"T","i","t","l","e">>
           /\ sections[2].title = <<"S","u","b">>
           /\ \A s \in 1..2 : ~is_tabular_section(sections[s].content)
           /\ Len(chunks) = 2
           /\ \A i \in 1..2 :
                /\ chunks[i].type = "text"
                /\ chunks[i].section_index = i - 1
                /\ chunks[i].title = sections[i].title
                /\ chunks[i].page_number = 1

\* The run over the Scenario A document has returned its chunks.
C18_Witness ==
    /\ pc = "done"
    /\ documents = <<ScenarioAPage>>
    /\ Len(chunks) = 2

\* C19: every chunk has a non-empty title, a page number of at least 1 and a
\* non-empty text.
C19_FieldsPopulated ==
    \A i \in ChunkIndices :
        /\ chunks[i].title # <<>>
        /\ chunks[i].page_number >= 1
        /\ chunks[i].text # <<>>

\* The chunk texts of a document, page by page and section by section.
DocumentTexts(docs) ==
    LET SectionTexts(section) ==
            IF is_tabular_section(section.content)
            THEN chunk_table_content(section.content, DefaultMaxRows)
            ELSE chunk_text_content(section.content, DefaultMaxChars)
        PageChunkTexts(page) ==
            LET secs == split_by_headers(page)
            IN  Flatten([s \in 1..Len(secs) |-> SectionTexts(secs[s])])
    IN  Flatten([p \in 1..Len(docs) |-> PageChunkTexts(docs[p])])

\* "doc_" followed by the decimal digits of a clock reading up to now
IsFallbackId(id, t) ==
    /\ Len(id) > 4
    /\ SubSeq(id, 1, 4) = <<"d","o","c","_">>
    /\ \A k \in 5..Len(id) : id[k] \in Digit
    /\ ParseInt(SubSeq(id, 5, Len(id))) \in 0..t

\* C20: without a file path (None or '') the call does not raise; the
\* document_id is "doc_<timestamp>", the document_name "unknown_document",
\* every chunk's file_path is '', and the document is chunked as it is with a
\* path.
C20_NoPathFallback ==
    ~Truthy(file_path)
        => /\ pc # "raised"
           /\ pc # "start"
                => /\ IsFallbackId(document_id, now)
                   /\ document_name = UnknownDocument
           /\ \A i \in ChunkIndices :
                /\ chunks[i].file_path = <<>>
                /\ chunks[i].document_id = document_id
                /\ chunks[i].document_name = UnknownDocument
           /\ pc = "done"
                => [i \in 1..Len(chunks) |-> chunks[i].text] = DocumentTexts(documents)

\* A call without a path (None) has returned several chunks after the clock
\* moved on.
C20_Witness ==
    /\ pc = "done"
    /\ file_path = NoPath
    /\ Len(chunks) >= 2
    /\ now > 0

\* C23: a document with a page that has a non-blank line which is not a
\* header line, chunked with a file path, gives at least one chunk.
C23_BodyTextGivesChunks ==
    (/\ pc = "done"
     /\ Truthy(file_path)
     /\ \E p \in 1..Len(documents) :
            \E l \in Range(SplitOn(documents[p], <<NL>>)) :
                HasText(l) /\ ~IsHeaderLine(Strip(l)))
        => chunks # <<>>

----------------------------------------------------------------------------
(* Properties of split_by_headers (specification SplitSpec)                *)

\* The lines of a text, each stripped, the blank ones left out.
StrippedLines(text) ==
    LET lines == SplitOn(text, <<NL>>)
    IN  SelectSeq([i \in 1..Len(lines) |-> Strip(lines[i])], LAMBDA l : l # <<>>)

\* No line of the text is a header line.
NoHeaderLine(text) ==
    \A i \in 1..Len(StrippedLines(text)) : ~IsHeaderLine(StrippedLines(text)[i])

\* The non-blank lines of a text that are not header lines, stripped.
BodyLines(text) ==
    SelectSeq(StrippedLines(text), LAMBDA l : ~IsHeaderLine(l))

\* The contents of the sections, concatenated in order.
RECURSIVE ConcatContents(_)
ConcatContents(secs) ==
    IF secs = <<>> THEN <<>>
    ELSE Head(secs).content \o ConcatContents(Tail(secs))

\* How often the line occurs in a sequence of lines.
Occurrences(line, lines) == Cardinality({i \in 1..Len(lines) : lines[i] = line})

\* Every line of the text stripped and followed by a newline.
RECURSIVE StrippedText(_)
StrippedText(lines) ==
    IF lines = <<>> THEN <<>>
    ELSE Strip(Head(lines)) \o <<NL>> \o StrippedText(Tail(lines))

\* C7: split_by_headers returns at least one section for every input text.
C7_SplitNeverEmpty ==
    (fn = "split_by_headers" /\ returned) => Len(ret) >= 1

\* The call has returned for a text without a non-whitespace character.
C7_Witness ==
    /\ fn = "split_by_headers" /\ returned
    /\ ~HasText(arg_text)
    /\ Len(arg_text) >= 2

\* C8 as stated: when no line matches a header pattern, the result is exactly
\* one section titled "Document Content" whose content is the input verbatim.
C8_NoHeaderFallbackAsStated ==
    (fn = "split_by_headers" /\ returned /\ NoHeaderLine(arg_text))
        => ret = <<[title |-> DocumentContentTitle, content |-> arg_text]>>

\* C8 amended: when no line matches a header pattern, the result is exactly
\* one section; for a text without a non-whitespace character it is titled
\* "Document Content" and holds the input verbatim, otherwise it is titled
\* "Introduction" and holds every line stripped and followed by a newline.
C8_NoHeaderSingleSection ==
    (fn = "split_by_headers" /\ returned /\ NoHeaderLine(arg_text))
        => ret = IF HasText(arg_text)
                 THEN <<[title   |-> IntroductionTitle,
                         content |-> StrippedText(SplitOn(arg_text, <<NL>>))]>>
                 ELSE <<[title |-> DocumentContentTitle, content |-> arg_text]>>

\* Both cases of the amended C8: a blank text with surrounding whitespace kept
\* verbatim, or a text with an indented line and a blank line.
C8_Witness ==
    /\ fn = "split_by_headers" /\ returned /\ NoHeaderLine(arg_text)
    /\ \/ ~HasText(arg_text) /\ Len(arg_text) >= 2
       \/ /\ HasText(arg_text)
          /\ Len(StrippedLines(arg_text)) >= 2
          /\ arg_text[1] = " "

\* C9 as stated: the concatenated section contents hold every non-blank line
\* of the input exactly once.
C9_NoLineDroppedAsStated ==
    (fn = "split_by_headers" /\ returned)
        => \A i \in 1..Len(StrippedLines(arg_text)) :
              Occurrences(StrippedLines(arg_text)[i],
                          StrippedLines(ConcatContents(ret)))
                  = Occurrences(StrippedLines(arg_text)[i], StrippedLines(arg_text))

\* C9 amended: the non-blank lines of the concatenated section contents are
\* exactly the non-blank lines of the input that are not header lines, in
\* input order and each once; when the input has no such line, the single
\* section holds the input verbatim.
C9_BodyLinesKept ==
    (fn = "split_by_headers" /\ returned)
        => IF BodyLines(arg_text) # <<>>
           THEN StrippedLines(ConcatContents(ret)) = BodyLines(arg_text)
           ELSE ConcatContents(ret) = arg_text

\* The call has returned two sections for a text with a header line.
C9_Witness ==
    /\ fn = "split_by_headers" /\ returned
    /\ ~NoHeaderLine(arg_text)
    /\ Len(ret) >= 2
    /\ Len(BodyLines(arg_text)) >= 2

----------------------------------------------------------------------------
(* Properties of chunk_table_content (specification TableSpec)             *)

\* The number of non-blank lines of a text.
NonBlankLineCount(text) == Len(SelectSeq(SplitOn(text, <<NL>>), HasText))

\* C10: a table content of at most max_rows non-blank lines comes back as
\* exactly one chunk, equal to the content.
C10_SmallTableUnchanged ==
    (fn = "chunk_table_content" /\ returned /\ NonBlankLineCount(arg_text) <= arg_max)
        => ret = <<arg_text>>

\* The call has returned for a content of exactly max_rows rows, one with a
\* separator, and a blank line.
C10_Witness ==
    /\ fn = "chunk_table_content" /\ returned
    /\ arg_max >= 2
    /\ NonBlankLineCount(arg_text) = arg_max
    /\ Count(arg_text, "|") > 0
    /\ Len(SplitOn(arg_text, <<NL>>)) > arg_max


\* The header line chunk_table_content detects: the first of the first three
\* non-blank lines that holds a '|' or a tab; <<>> when there is none.
DetectedHeader(text) ==
    LET rows == SelectSeq(SplitOn(text, <<NL>>), HasText)
        hits == {i \in 1..Len(rows) :
                    i <= 3 /\ (Count(rows[i], "|") > 0 \/ Count(rows[i], TAB) > 0)}
    IN  IF hits = {} THEN <<>> ELSE rows[SetMin(hits)]

\* The text begins with the line: the line, then a newline or the end.
BeginsWithLine(text, line) ==
    /\ Len(text) >= Len(line)
    /\ SubSeq(text, 1, Len(line)) = line
    /\ Len(text) > Len(line) => text[Len(line) + 1] = NL

\* C11: for a table content of more than max_rows non-blank lines in which a
\* header line is detected, every chunk after the first begins with that
\* header line.
C11_LaterChunksCarryHeader ==
    (/\ fn = "chunk_table_content" /\ returned
     /\ NonBlankLineCount(arg_text) > arg_max
     /\ DetectedHeader(arg_text) # <<>>)
        => \A k \in 2..Len(ret) : BeginsWithLine(ret[k], DetectedHeader(arg_text))

\* The call has returned two chunks or more for a content whose header line is not
\* its first non-blank line.
C11_Witness ==
    /\ fn = "chunk_table_content" /\ returned
    /\ NonBlankLineCount(arg_text) > arg_max
    /\ DetectedHeader(arg_text) # <<>>
    /\ DetectedHeader(arg_text) # SelectSeq(SplitOn(arg_text, <<NL>>), HasText)[1]
    /\ Len(ret) >= 2

\* C12 (Scenario B): the 25-row table with max_rows = 10 gives exactly three
\* chunks: the header line plus the first 9 data rows with no header
\* prepended, then data rows 11-20 and data rows 21-24, each with the header
\* line prepended.
C12_ScenarioB ==
    (/\ fn = "chunk_table_content" /\ returned
     /\ arg_text = ScenarioBTable /\ arg_max = DefaultMaxRows)
        => /\ Len(ret) = 3
           /\ ret[1] = Join(<<HeaderRow>> \o [k \in 1..9 |-> DataRow(k)], <<NL>>)
           /\ ret[2] = HeaderRow \o <<NL>>
                          \o Join([k \in 1..10 |-> DataRow(10 + k)], <<NL>>)
           /\ ret[3] = HeaderRow \o <<NL>>
                          \o Join([k \in 1..4 |-> DataRow(20 + k)], <<NL>>)


\* C24: every section the line scan produces has non-whitespace content, so
\* there are no more sections than non-blank lines that are not headers; only
\* the "Document Content" fallback, returned when there is no such line, may
\* hold a content without text.
C24_SealedSectionsHaveText ==
    (fn = "split_by_headers" /\ returned)
        => IF BodyLines(arg_text) = <<>>
           THEN ret = <<[title |-> DocumentContentTitle, content |-> arg_text]>>
           ELSE /\ \A k \in 1..Len(ret) : HasText(ret[k].content)
                /\ Len(ret) <= Len(BodyLines(arg_text))

\* A text whose header line is followed by the end of the text: the only
\* section is the one of the lines before the header.
C24_Witness ==
    /\ fn = "split_by_headers" /\ returned
    /\ ~NoHeaderLine(arg_text)
    /\ Len(ret) = 1
    /\ ret[1].title = IntroductionTitle
    /\ HasText(ret[1].content)

----------------------------------------------------------------------------
(* Properties of chunk_text_content (specification ProseSpec)              *)

\* The paragraphs of a content: the pieces between blank-line boundaries.
Paragraphs(content) == SplitOn(content, <<NL, NL>>)

\* The sentences of a content: the non-empty stripped pieces between runs of
\* terminators, of every paragraph.
Sentences(content) ==
    {s \in UNION {{Strip(piece) : piece \in Range(SplitSentences(p))} :
                     p \in Range(Paragraphs(content))} : s # <<>>}

\* C13: every chunk is at most max_chars long, except a chunk that is exactly
\* one sentence or one paragraph that is itself longer than max_chars.
C13_ChunkLengthBound ==
    (fn = "chunk_text_content" /\ returned)
        => \A k \in 1..Len(ret) :
              \/ Len(ret[k]) <= arg_max
              \/ ret[k] \in Sentences(arg_text)
              \/ ret[k] \in {Strip(p) : p \in Range(Paragraphs(arg_text))}

\* C14: a sentence longer than max_chars comes out whole as a chunk of its
\* own; the 1500-character paragraph with max_chars = 1000 gives exactly one
\* chunk of 1500 characters.
C14_LongSentenceWhole ==
    (fn = "chunk_text_content" /\ returned)
        => /\ \A s \in Sentences(arg_text) :
                Len(s) > arg_max => \E k \in 1..Len(ret) : ret[k] = s
           /\ (arg_text = ScenarioDParagraph /\ arg_max = DefaultMaxChars)
                => (Len(ret) = 1 /\ Len(ret[1]) = 1500 /\ ret[1] = arg_text)

\* The call on the 1500-character paragraph has returned.
C14_Witness ==
    /\ fn = "chunk_text_content" /\ returned
    /\ arg_text = ScenarioDParagraph /\ arg_max = DefaultMaxChars
    /\ Len(ret) = 1


----------------------------------------------------------------------------
(* Properties of is_tabular_section (specification ClassifySpec)           *)

\* The lines of a content, blank ones included
AllLines(content) == SplitOn(content, <<NL>>)

\* The separator counts recorded for a content, one per line holding a
\* separator, in line order: the pipe count of a line with a pipe, otherwise
\* the tab count of a line with a tab.
RecordedCounts(content) ==
    LET withSep == SelectSeq(AllLines(content),
                             LAMBDA l : "|" \in Range(l) \/ TAB \in Range(l))
    IN  [i \in 1..Len(withSep) |->
            IF "|" \in Range(withSep[i]) THEN Count(withSep[i], "|")
                                         ELSE Count(withSep[i], TAB)]

\* pipe_ratio > tenths / 10, the ratio taken over all lines
PipeRatioAbove(content, tenths) ==
    10 * Len(SelectSeq(AllLines(content), LAMBDA l : Count(l, "|") >= 2))
        > tenths * Len(AllLines(content))

\* tab_ratio > tenths / 10, the ratio taken over all lines
TabRatioAbove(content, tenths) ==
    10 * Len(SelectSeq(AllLines(content), LAMBDA l : TAB \in Range(l)))
        > tenths * Len(AllLines(content))

\* consistency > 0.6: some count makes up more than six tenths of the
\* recorded counts.
ConsistencyAbove06(content) ==
    LET rc == RecordedCounts(content)
    IN  \E v \in Range(rc) :
            10 * Cardinality({i \in 1..Len(rc) : rc[i] = v}) > 6 * Len(rc)

KeywordPresent(content) ==
    \E k \in TableKeywords :
        \E i \in 1..(Len(content) - Len(k) + 1) :
            SubSeq(LowerText(content), i, i + Len(k) - 1) = k

\* C15 (as stated): the result is the disjunction of the four conditions, the
\* third one asking for more than one distinct recorded count, for every
\* content.
C15_DecisionAsStated ==
    (fn = "is_tabular_section" /\ returned)
        => ret[1] = (\/ PipeRatioAbove(arg_text, 4)
                     \/ TabRatioAbove(arg_text, 3)
                     \/ /\ ConsistencyAbove06(arg_text)
                        /\ Cardinality(Range(RecordedCounts(arg_text))) > 1
                     \/ /\ KeywordPresent(arg_text)
                        /\ \/ PipeRatioAbove(arg_text, 2)
                           \/ TabRatioAbove(arg_text, 2))

\* C15 (amended): a content of one line is never tabular; a content of two or
\* more lines is tabular exactly when one of the four conditions holds, the
\* third one asking for more than one recorded count (equal or not).
C15_Decision ==
    (fn = "is_tabular_section" /\ returned)
        => ret[1] = (/\ Len(AllLines(arg_text)) >= 2
                     /\ \/ PipeRatioAbove(arg_text, 4)
                        \/ TabRatioAbove(arg_text, 3)
                        \/ /\ ConsistencyAbove06(arg_text)
                           /\ Len(RecordedCounts(arg_text)) > 1
                        \/ /\ KeywordPresent(arg_text)
                           /\ \/ PipeRatioAbove(arg_text, 2)
                              \/ TabRatioAbove(arg_text, 2))

\* A content of several lines classified as tabular by the third condition
\* alone, all its recorded counts being the same value.
C15_Witness ==
    /\ fn = "is_tabular_section" /\ returned
    /\ ret[1] = TRUE
    /\ ~PipeRatioAbove(arg_text, 4) /\ ~TabRatioAbove(arg_text, 3)
    /\ ~KeywordPresent(arg_text)
    /\ Len(RecordedCounts(arg_text)) > 1
    /\ Cardinality(Range(RecordedCounts(arg_text))) = 1

\* The content without its blank lines
WithoutBlankLines(content) == Join(SelectSeq(AllLines(content), HasText), <<NL>>)

\* C16: the classification of a content is the classification of the content
\* with its blank lines removed.
C16_BlankLinesIrrelevant ==
    (fn = "is_tabular_section" /\ returned)
        => ret[1] = is_tabular_section(WithoutBlankLines(arg_text))


----------------------------------------------------------------------------
(* Further properties of chunk_table_content (specification TableSpec)     *)

\* C26: at least one chunk is returned, and every non-blank line of the
\* content is a line of some returned chunk.
C26_NoRowLost ==
    (fn = "chunk_table_content" /\ returned)
        => /\ Len(ret) >= 1
           /\ \A line \in Range(SelectSeq(SplitOn(arg_text, <<NL>>), HasText)) :
                \E k \in 1..Len(ret) : line \in Range(SplitOn(ret[k], <<NL>>))


----------------------------------------------------------------------------
(* Further properties of chunk_text_content (specification ProseSpec)      *)

\* The characters of a text that are not whitespace, in order
NonWhitespace(text) == SelectSeq(text, LAMBDA c : c \notin Whitespace)

\* C27: for a content longer than max_chars, the chunks concatenated in order
\* hold the non-whitespace characters of the content, all of them and in the
\* original order.
C27_TextPreserved ==
    (fn = "chunk_text_content" /\ returned /\ Len(arg_text) > arg_max)
        => NonWhitespace(Flatten(ret)) = NonWhitespace(arg_text)


----------------------------------------------------------------------------
(* Properties of the service (specification ServiceSpec)                   *)

\* The nodes the store holds under a document_id
StoredUnder(doc_id) == SelectSeq(store, LAMBDA n : n.document_id = doc_id)

\* add_chunks has returned normally in the request at hand.
AddChunksReturned == rpc \in {"loop", "answer"} \/ (rpc = "done" /\ status = 200)

\* C21: when add_chunks has returned normally for a non-empty batch, the
\* store holds under the batch's document_id exactly the nodes of the batch,
\* none of an earlier ingestion.
C21_ReingestReplaces ==
    (AddChunksReturned /\ batch # <<>>)
        => StoredUnder(assigned_id) = [i \in 1..Len(batch) |-> Node(batch[i], served)]

\* The last POST of generate_answer failed.
LlmFailed == llm_outcome \in {"bad_status", "exception"}

\* generate_answer has returned to the handler.
AnswerReturned == rpc \in {"loop", "done"} /\ llm_outcome # "none"

\* C22: when the POST failed, the fallback response is returned only after
\* a further attempt.
C22_RetryBeforeFallback ==
    (AnswerReturned /\ LlmFailed) => llm_attempts >= 2

\* C25: when the POST failed, generate_answer returns (the handler goes on
\* with no error status) a response of the four fields with confidence "Low",
\* whose answer is the insufficient-information message exactly when the
\* chunk list is empty.
C25_FallbackOnFailure ==
    (AnswerReturned /\ LlmFailed)
        => /\ status \in {0, 200}
           /\ DOMAIN answer_data = {"answer", "rationale", "confidence", "relevant_clauses"}
           /\ answer_data.confidence = "Low"
           /\ Len(answer_data.relevant_clauses) = Len(relevant_chunks)
           /\ (answer_data.answer = InsufficientAnswer) <=> (relevant_chunks = <<>>)
           /\ answers[Len(answers)] = answer_data.answer

\* The POST failed for a question with retrieved chunks.
C25_Witness ==
    /\ AnswerReturned /\ LlmFailed
    /\ relevant_chunks # <<>>
    /\ rpc = "loop"

\* create_or_load_index has returned normally in the request at hand.
IndexReturned == rpc \in {"add", "loop", "answer"} \/ (rpc = "done" /\ status = 200)

\* C28: the instance a call of create_or_load_index returns has its index,
\* vector_store and storage_context set.
C28_ReturnedInstanceInitialized ==
    IndexReturned
        => /\ pinecone_index.exists
           /\ pinecone_index.index
           /\ pinecone_index.vector_store
           /\ pinecone_index.storage_context

\* C29: the document_id retrieve_chunks passes as the search filter is the
\* one chunk_document gave the chunks of this request, and every retrieved
\* chunk is of that document.
C29_FilterIsAssignedId ==
    rpc = "answer"
        => /\ filter_id = assigned_id
           /\ \A i \in 1..Len(relevant_chunks) :
                relevant_chunks[i].document_id = assigned_id

\* The request fails the validation of the handler.
FailsValidation(r) ==
    \/ r.documents = <<>>
    \/ r.questions = 0
    \/ /\ r.documents \notin ExistingFiles
       /\ ~StartsWith(r.documents, HttpPrefix)
       /\ ~StartsWith(r.documents, HttpsPrefix)

\* C30: a request that fails validation (its token accepted) is answered
\* with status 400, and no collaborator was called for it.
C30_ValidationGives400 ==
    (rpc = "done" /\ request.token_ok /\ FailsValidation(request))
        => (status = 400 /\ effects = {})

====
